---- MODULE Spec2Model ----
(***************************************************************************)
(* Restock detection and notification dedup of the PokeAlert bot (bot.py). *)
(*                                                                         *)
(* The store holds two collections, monitored_products and subscriptions.  *)
(* The background task monitor_restocks reads the active products once     *)
(* per cycle and then handles them one after the other; it is suspended    *)
(* only while it awaits a page fetch, a message send or the pacing sleep,  *)
(* and the chat commands run in those gaps.  Every store call is           *)
(* synchronous, so a step of the model runs from one await to the next.    *)
(*                                                                         *)
(* firestore.SERVER_TIMESTAMP is a strictly increasing clock: every write  *)
(* of a last_restock_time or of a last-notified timestamp takes the next   *)
(* tick.  NoTime stands for None / a missing map entry.                    *)
(***************************************************************************)
EXTENDS Integers, Sequences, FiniteSets, TLC

Products == {"p1", "p2"}
Subscribers == {"s1", "s2"}
ProductOrder == <<"p1", "p2">>

Statuses == {"in_stock", "out_of_stock", "unknown"}
StatusArgs == Statuses \cup {"sold_out"}
DeliveryOutcomes == {"delivered", "permission_denied", "transient_error", "not_found"}
NoArg == "none"

NoTime == 0
RestockThreshold == 2

\* Bounds of the exploration.
MaxTurns == 3
MaxCommands == 1
MaxWriteFailures == 2
MaxClock == 4

VARIABLES
    monitored_products,     \* the monitored_products collection
    subscriptions,          \* the subscriptions collection
    clock,                  \* last SERVER_TIMESTAMP handed out
    is_running,             \* monitor_restocks.is_running()
    running_tasks,          \* observation: monitor_restocks tasks started and not ended
    pc,                     \* where monitor_restocks is suspended
    products_docs,          \* the cycle's query result still to handle, head = current
    current_stock_status,   \* the classification of the current turn
    subscriber_ids,         \* resolved subscribers not yet iterated
    target,                 \* subscriber whose send is awaited
    check_all_docs,         \* check_all_products: product ids still to check
    turns, commands, write_failures,    \* counters that bound the exploration
    turn,                   \* observation: the turn in progress, or the one the last step ended
    notified_since,         \* observation: s was delivered p's alert since p's last_restock_time last changed
    passed_against,         \* observation: the last_restock_time s last passed the gate against for p, then timestamped
    oos_seen,               \* observation: some cycle classified the product id out_of_stock
    oos_streak,             \* observation: how many of the product's latest cycle classifications in a row were out_of_stock (up to 2)
    fresh_turns,            \* observation: turns of the product since add_product while nothing else touched it, or Stale
    unpersisted_event,      \* observation: the product's latest turn fired and its write failed
    only_product_removed,   \* observation: subscriptions whose list was exactly {p}, specific_products, at the latest remove_product(p)
    failed_for,             \* observation: pairs <<s, p>> whose latest send for p to s ended in an error (lines 430-437 treat a transient error as any other)
    event_run,              \* observation: an event of p was delivered and persisted, and every cycle since classified in_stock
    product,                \* check_stock_status: its argument
    site,                   \* check_stock_status: what the fetch of product['url'] meets
    content,                \* check_stock_status: what fetch_website_content returned
    returned                \* check_stock_status: what it returned, or that it raised

vars == <<monitored_products, subscriptions, clock, is_running, running_tasks, pc, products_docs,
          current_stock_status, subscriber_ids, target, check_all_docs,
          turns, commands, write_failures,
          turn, notified_since, passed_against, oos_seen, oos_streak, fresh_turns, unpersisted_event,
                   event_run, only_product_removed, failed_for,
          product, site, content, returned>>

store == <<monitored_products, subscriptions, clock>>
task == <<pc, products_docs, current_stock_status, subscriber_ids, target>>
classifier == <<product, site, content, returned>>
kept == <<notified_since, passed_against, oos_seen, oos_streak, fresh_turns, unpersisted_event,
                   event_run, only_product_removed, failed_for>>

-----------------------------------------------------------------------------
\* Documents.

NoProduct ==
    [exists |-> FALSE, is_active |-> FALSE, last_stock_status |-> "unknown",
     consecutive_out_of_stock_checks |-> 0, last_restock_time |-> NoTime]

\* add_product's product_data; the counter field is absent and reads as 0.
NewProduct ==
    [exists |-> TRUE, is_active |-> TRUE, last_stock_status |-> "unknown",
     consecutive_out_of_stock_checks |-> 0, last_restock_time |-> NoTime]

NoSubscription ==
    [exists |-> FALSE, subscribed_product_ids |-> {},
     notification_preference |-> "specific_products",
     last_notified_timestamps |-> [p \in Products |-> NoTime]]

\* The document subscribe creates when there is none.
NewSubscription == [NoSubscription EXCEPT !.exists = TRUE]

EveryProductId == {p \in Products : monitored_products[p].exists}

\* The query of line 993.
ActiveProductIds == {p \in Products : monitored_products[p].exists /\ monitored_products[p].is_active}
ExistingProductIds == {p \in Products : monitored_products[p].exists}

InOrder(ids) == SelectSeq(ProductOrder, LAMBDA p : p \in ids)

\* What a query hands to the cycle: a copy of each document, with its id.
Snapshot(p) ==
    [id |-> p,
     last_stock_status |-> monitored_products[p].last_stock_status,
     consecutive_out_of_stock_checks |-> monitored_products[p].consecutive_out_of_stock_checks,
     last_restock_time |-> monitored_products[p].last_restock_time]

\* The observation of a turn: what it read (prev, cnt, restock_time), how the page was
\* classified (cur), whether the restock branch was taken (fired; fresh_event:
\* not a repeat of an event whose write failed), the resolved subscribers, the
\* last-notified timestamp the gate read for each (gate_at), who was sent to
\* (attempted), who received it (delivered; timestamped: and had the last-notified
\* timestamp stored; repeated: not for the first time
\* since last_restock_time changed), the keys of the update_data handed to the
\* product write (update_keys) and how that write ended.
NoTurn ==
    [id |-> "p1", cur |-> "unknown", prev |-> "unknown", cnt |-> 0,
     restock_time |-> NoTime,
     fired |-> FALSE, fresh_event |-> FALSE,
     resolved |-> {}, attempted |-> {}, delivered |-> {}, timestamped |-> {},
     repeated |-> {},
     gate_at |-> [s \in Subscribers |-> NoTime],
     update_keys |-> {},
     written |-> "none"]

\* fresh_turns of a product that is absent, was disturbed (a command wrote it, a
\* write failed, its first turn read something else than add_product's values)
\* or has had more than two turns.
Stale == 0 - 1
NotPassed == 0 - 1

\* A step that is no step of a turn forgets the turn that has ended.
ForgetTurn == turn' = IF turn.written = "pending" THEN turn ELSE NoTurn

-----------------------------------------------------------------------------
\* The restock state machine (monitor_restocks, lines 1010-1028).

RestockDetectedAnyRise(cur, prev, cnt) ==
    cur = "in_stock" /\ prev # "in_stock"

RestockDetectedOnce(cur, prev, cnt) ==
    cur = "in_stock" /\ prev = "out_of_stock" /\ cnt >= 1

RestockDetectedLate(cur, prev, cnt) ==
    cur = "in_stock" /\ prev = "out_of_stock" /\ cnt > RestockThreshold

RestockDetected(cur, prev, cnt) ==
    cur = "in_stock" /\ prev = "out_of_stock" /\ cnt >= RestockThreshold

CounterUpdateResetOnUnknown(cur, cnt) ==
    IF cur = "out_of_stock" THEN [set |-> TRUE, value |-> cnt + 1]
    ELSE [set |-> TRUE, value |-> 0]

\* update_data['consecutive_out_of_stock_checks'], when the turn sets it.
CounterUpdate(cur, cnt) ==
    IF cur = "out_of_stock" THEN [set |-> TRUE, value |-> cnt + 1]
    ELSE IF cur = "in_stock" THEN [set |-> TRUE, value |-> 0]
    ELSE [set |-> FALSE, value |-> 0]

ResolveSubscribersByListOnly(p) ==
    {s \in Subscribers : subscriptions[s].exists
                         /\ p \in subscriptions[s].subscribed_product_ids}

\* The subscriber resolver (lines 1030-1044).
ResolveSubscribers(p) ==
    {s \in Subscribers : subscriptions[s].exists /\ p \in subscriptions[s].subscribed_product_ids}
    \cup
    {s \in Subscribers : subscriptions[s].exists
                         /\ subscriptions[s].notification_preference = "all_products"}

ShouldNotifyAlways(last_notified, restock_time) == TRUE

\* The dedup gate (lines 1050-1055): restock_time is product_data['last_restock_time'],
\* the value the cycle read, not the timestamp this turn is about to write.
ShouldNotify(last_notified, restock_time) ==
    \/ last_notified = NoTime
    \/ (restock_time # NoTime /\ last_notified < restock_time)


\* The keys of update_data (lines 1011-1028).
UpdateKeys(cur, doc) ==
    {"last_checked", "last_stock_status"}
    \cup (IF CounterUpdate(cur, doc.consecutive_out_of_stock_checks).set
          THEN {"consecutive_out_of_stock_checks"} ELSE {})
    \cup (IF RestockDetected(cur, doc.last_stock_status,
                             doc.consecutive_out_of_stock_checks)
          THEN {"last_restock_time"} ELSE {})

UpdateDataStatusOnEvent(cur, doc) ==
    [keys |-> UpdateKeys(cur, doc),
     last_stock_status |-> IF RestockDetected(cur, doc.last_stock_status,
                                              doc.consecutive_out_of_stock_checks)
                           THEN cur ELSE doc.last_stock_status,
     counter |-> CounterUpdate(cur, doc.consecutive_out_of_stock_checks),
     set_restock_time |-> RestockDetected(cur, doc.last_stock_status,
                                          doc.consecutive_out_of_stock_checks)]

\* update_data of a turn (lines 1010-1028).
UpdateData(cur, doc) ==
    [keys |-> UpdateKeys(cur, doc),
     last_stock_status |-> cur,
     counter |-> CounterUpdate(cur, doc.consecutive_out_of_stock_checks),
     set_restock_time |-> RestockDetected(cur, doc.last_stock_status,
                                          doc.consecutive_out_of_stock_checks)]

-----------------------------------------------------------------------------
\* monitor_restocks.

\* The store as the bot finds it: p1 was added and has since been classified
\* out_of_stock in k turns; s1 has subscribed to p1, or subscribed to all
\* products before p1 was added (lines 464-470 then store an empty list) and
\* p1 has been out of stock for two turns since.
\* With removed, p1 has had a first life: an event delivered to s1 (timestamp 1,
\* last_restock_time 2), a second event whose send to s1 ended in a transient
\* error (last_restock_time 3), and then remove_product p1.
\* With listed, p2 was added as well before s1 subscribed to all products, so
\* that lines 464-470 stored both ids in its list, and toggle_monitoring has
\* since switched both products off.
BotInit(k, preference, removed, listed) ==
    /\ monitored_products =
         [p \in Products |->
            IF p = "p1" /\ ~removed
            THEN [NewProduct EXCEPT
                    !.is_active = ~listed,
                    !.last_stock_status = IF k = 0 THEN "unknown" ELSE "out_of_stock",
                    !.consecutive_out_of_stock_checks = k]
            ELSE IF listed THEN [NewProduct EXCEPT !.is_active = FALSE]
            ELSE NoProduct]
    /\ oos_seen = [p \in Products |-> p = "p1" /\ (k > 0 \/ removed)]
    /\ oos_streak = [p \in Products |-> IF p = "p1" THEN k ELSE 0]
    /\ fresh_turns = [p \in Products |-> IF p = "p1" /\ ~removed THEN k
                                        ELSE IF listed THEN 0 ELSE Stale]
    /\ subscriptions =
         [s \in Subscribers |->
            IF s = "s1"
            THEN IF preference = "specific_products"
                 THEN [NewSubscription EXCEPT !.subscribed_product_ids = {"p1"}]
                 ELSE [NewSubscription EXCEPT
                         !.subscribed_product_ids = IF listed THEN Products ELSE {},
                         !.notification_preference = "all_products",
                         !.last_notified_timestamps["p1"] = IF removed THEN 1 ELSE NoTime]
            ELSE NoSubscription]
    /\ clock = IF removed THEN 3 ELSE 0
    /\ is_running = FALSE
    /\ running_tasks = 0
    /\ pc = "idle"
    /\ products_docs = <<>>
    /\ current_stock_status = "unknown"
    /\ subscriber_ids = {}
    /\ target = NoArg
    /\ check_all_docs = <<>>
    /\ turns = 0
    /\ commands = 0
    /\ write_failures = 0
    /\ turn = NoTurn
    /\ notified_since = [s \in Subscribers |-> [p \in Products |-> FALSE]]
    /\ passed_against = [s \in Subscribers |-> [p \in Products |->
                            IF removed /\ s = "s1" /\ p = "p1" THEN NoTime ELSE NotPassed]]
    /\ failed_for = IF removed THEN {<<"s1", "p1">>} ELSE {}
    /\ unpersisted_event = [p \in Products |-> FALSE]
    /\ event_run = [p \in Products |-> FALSE]
    /\ only_product_removed = {}

Init ==
  \E k \in 0..2, preference \in {"specific_products", "all_products"},
     removed \in BOOLEAN, listed \in BOOLEAN :
    /\ removed => (k = 0 /\ preference = "all_products")
    /\ (preference = "all_products" /\ ~removed) => k = 2
    /\ listed => (preference = "all_products" /\ ~removed)
    /\ BotInit(k, preference, removed, listed)
    /\ product = NoArg /\ site = NoArg /\ content = NoArg /\ returned = NoArg

StartsTaskAlways(running) == TRUE

\* Line 1086: on_ready calls monitor_restocks.start() unless the task is running.
StartsTask(running) == ~running

\* on_ready (lines 1081-1088); it is dispatched at every (re)connection.
OnReady ==
    /\ IF StartsTask(is_running)
       THEN /\ is_running' = TRUE
            /\ running_tasks' = running_tasks + 1
       ELSE UNCHANGED <<is_running, running_tasks>>
    /\ IF is_running
       THEN /\ commands < MaxCommands
            /\ commands' = commands + 1
       ELSE UNCHANGED commands
    /\ UNCHANGED <<store, task, check_all_docs, turns, write_failures, kept>>
    /\ ForgetTurn
    /\ UNCHANGED classifier

\* Lines 989-998: the loop fires when the previous run has returned; the query
\* result is the cycle's list of products.
MonitorStart ==
    /\ is_running
    /\ pc = "idle"
    /\ turns < MaxTurns
    /\ products_docs' = [i \in 1..Len(InOrder(ActiveProductIds)) |->
                            Snapshot(InOrder(ActiveProductIds)[i])]
    /\ pc' = IF ActiveProductIds = {} THEN "idle" ELSE "check"
    /\ UNCHANGED <<store, is_running, running_tasks, current_stock_status, subscriber_ids, target,
                   check_all_docs, turns, commands, write_failures, kept>>
    /\ ForgetTurn
    /\ UNCHANGED classifier

AfterWriteInPart(ok, old, new) ==
    IF ok THEN new ELSE [old EXCEPT !.last_stock_status = new.last_stock_status]

AfterWriteRestockTimeKept(ok, old, new) ==
    IF ok THEN new ELSE [old EXCEPT !.last_restock_time = new.last_restock_time]

\* Lines 1067-1070: the document after update(update_data); a call that raises
\* has written nothing.
AfterWrite(ok, old, new) == IF ok THEN new ELSE old

RestockTimestampNotLater(clk) == clk

\* Lines 1028 and 1068: the SERVER_TIMESTAMP of update_data is resolved by the
\* store when the update is applied, after every write made before it.
RestockTimestamp(clk) == clk + 1

\* Lines 1066-1073: the product write that ends a turn, then the pacing sleep.
\* update() raises when the document is gone; the error is logged and the loop goes on.
FinishTurn(subs, clk, wf, cur, lt, ns, ok) ==
    LET doc == Head(products_docs)
        p == doc.id
        upd == UpdateData(cur, doc)
        old == monitored_products[p]
        t == RestockTimestamp(clk)
        new == [old EXCEPT
                  !.last_stock_status = upd.last_stock_status,
                  !.consecutive_out_of_stock_checks =
                      IF upd.counter.set THEN upd.counter.value ELSE @,
                  !.last_restock_time = IF upd.set_restock_time THEN t ELSE @]
        stamped == ok /\ upd.set_restock_time
        n == fresh_turns[p]
    IN  /\ ok => old.exists
        /\ (~ok /\ old.exists) => wf < MaxWriteFailures
        /\ stamped => clk < MaxClock
        /\ monitored_products' = [monitored_products EXCEPT ![p] = AfterWrite(ok, old, new)]
        /\ clock' = IF stamped THEN t ELSE clk
        /\ write_failures' = IF ~ok /\ old.exists THEN wf + 1 ELSE wf
        /\ subscriptions' = subs
        /\ products_docs' = Tail(products_docs)
        /\ pc' = IF Tail(products_docs) = <<>> THEN "idle" ELSE "check"
        /\ current_stock_status' = "unknown"
        /\ subscriber_ids' = {}
        /\ target' = NoArg
        /\ turn' = [lt EXCEPT !.written = IF ok THEN "ok" ELSE "failed",
                              !.update_keys = upd.keys]
        /\ notified_since' = IF stamped
                             THEN [s \in Subscribers |-> [ns[s] EXCEPT ![p] = FALSE]]
                             ELSE ns
        /\ unpersisted_event' = [unpersisted_event EXCEPT ![p] = upd.set_restock_time /\ ~ok]
        /\ event_run' = [event_run EXCEPT ![p] =
              IF cur # "in_stock" THEN FALSE
              ELSE IF stamped /\ lt.delivered # {} THEN TRUE
              ELSE @]
        /\ fresh_turns' = [fresh_turns EXCEPT ![p] =
              IF n = Stale \/ ~ok \/ n >= 2 THEN Stale
              ELSE IF n = 0 /\ (lt.prev # "unknown" \/ lt.cnt # 0) THEN Stale
              ELSE n + 1]

\* Lines 1046-1064: the loop over subscriber_ids runs without suspending until a
\* subscriber passes the gate (then the send is awaited) or the set is exhausted
\* (then the product is written).  A set is iterated in no particular order:
\* skipped_now are the gated-out subscribers met before the one that passes.
Iterate(subs, clk, wf, pending, cur, lt, ns) ==
    LET doc == Head(products_docs)
        p == doc.id
        passing == {s \in pending :
                      /\ subs[s].exists
                      /\ ShouldNotify(subs[s].last_notified_timestamps[p],
                                      doc.last_restock_time)}
        Gated(l, K) == [l EXCEPT !.gate_at =
                          [s \in Subscribers |->
                              IF s \in K THEN subs[s].last_notified_timestamps[p] ELSE @[s]]]
    IN  IF passing # {}
        THEN \E s \in passing, skipped_now \in SUBSET (pending \ passing) :
                /\ pc' = "send"
                /\ target' = s
                /\ subscriber_ids' = pending \ (skipped_now \cup {s})
                /\ current_stock_status' = cur
                /\ subscriptions' = subs
                /\ clock' = clk
                /\ turn' = [Gated(lt, skipped_now \cup {s}) EXCEPT !.attempted = @ \cup {s}]
                /\ notified_since' = ns
                /\ write_failures' = wf
                /\ UNCHANGED <<monitored_products, products_docs,
                               unpersisted_event, event_run, fresh_turns>>
        ELSE \E ok \in BOOLEAN : FinishTurn(subs, clk, wf, cur, Gated(lt, pending), ns, ok)

\* Lines 1000-1044: one product's turn, resumed when check_stock_status returns cur.
\* The previous status and the counter are those of the cycle's query result.
MonitorTurn(cur) ==
    /\ pc = "check"
    /\ turns < MaxTurns
    /\ turns' = turns + 1
    /\ LET doc == Head(products_docs)
           p == doc.id
           fired == UpdateData(cur, doc).set_restock_time
           resolved == IF fired THEN ResolveSubscribers(p) ELSE {}
           lt == [id |-> p, cur |-> cur,
                  prev |-> doc.last_stock_status,
                  cnt |-> doc.consecutive_out_of_stock_checks,
                  restock_time |-> doc.last_restock_time,
                  fired |-> fired, fresh_event |-> ~unpersisted_event[p],
                  resolved |-> resolved, attempted |-> {}, delivered |-> {},
                  timestamped |-> {}, repeated |-> {},
                  gate_at |-> [s \in Subscribers |-> NoTime],
                  update_keys |-> {},
                  written |-> "pending"]
       IN  /\ oos_seen' = [oos_seen EXCEPT ![p] = @ \/ cur = "out_of_stock"]
           /\ oos_streak' = [oos_streak EXCEPT ![p] =
                                IF cur # "out_of_stock" THEN 0 ELSE IF @ < 2 THEN @ + 1 ELSE @]
           /\ Iterate(subscriptions, clock, write_failures, resolved, cur, lt, notified_since)
    /\ UNCHANGED <<is_running, running_tasks, check_all_docs, commands, passed_against,
                   only_product_removed, failed_for, classifier>>

RecordsTimestampOnAnyOutcome(outcome, recorded) == recorded

RemainingAfterAbort(outcome, pending) == IF outcome = "delivered" THEN pending ELSE {}

\* Lines 430-437 catch every exception of a send, so the loop at line 1046 goes
\* on with the subscribers still to be visited whatever the outcome.
RemainingAfter(outcome, pending) == pending

\* Lines 423-429: the last-notified update follows a send that returned, and it
\* takes effect when the store accepts it.
RecordsTimestamp(outcome, recorded) == outcome = "delivered" /\ recorded

\* send_restock_notification (lines 402-437), resumed with the outcome of the send;
\* only a confirmed send records the timestamp, and that store update can fail
\* like any other (recorded = FALSE; the error is caught at line 436).  The turn
\* then goes on.
SendRestockNotification(outcome, recorded) ==
    /\ pc = "send"
    /\ LET p == Head(products_docs).id
           s == target
           sent == outcome = "delivered"
           stored == RecordsTimestamp(outcome, recorded)
           t == clock + 1
           subs == IF stored
                   THEN [subscriptions EXCEPT ![s].last_notified_timestamps[p] = t]
                   ELSE subscriptions
           lt == [turn EXCEPT
                    !.delivered = IF sent THEN @ \cup {s} ELSE @,
                    !.timestamped = IF stored THEN @ \cup {s} ELSE @,
                    !.repeated = IF sent /\ notified_since[s][p] THEN @ \cup {s} ELSE @]
           ns == IF sent THEN [notified_since EXCEPT ![s][p] = TRUE] ELSE notified_since
           wf == IF recorded THEN write_failures ELSE write_failures + 1
       IN  /\ ~sent => recorded
           /\ ~recorded => write_failures < MaxWriteFailures
           /\ stored => clock < MaxClock
           /\ Iterate(subs, IF stored THEN t ELSE clock, wf,
                      RemainingAfter(outcome, subscriber_ids),
                      current_stock_status, lt, ns)
           /\ passed_against' =
                 IF stored
                 THEN [passed_against EXCEPT ![s][p] = Head(products_docs).last_restock_time]
                 ELSE passed_against
           /\ failed_for' = IF outcome # "delivered"
                            THEN failed_for \cup {<<s, p>>}
                            ELSE failed_for \ {<<s, p>>}
    /\ UNCHANGED <<is_running, running_tasks, check_all_docs, turns, commands, oos_seen, oos_streak,
                   only_product_removed, classifier>>

-----------------------------------------------------------------------------
\* Chat commands.  Each runs its store calls without suspending.

Command == /\ commands < MaxCommands
           /\ commands' = commands + 1

Disturb(ids) == [p \in Products |-> IF p \in ids THEN Stale ELSE fresh_turns[p]]

\* subscribe (lines 440-502); arg is a product id, or NoArg for all products.
Subscribe(s, arg) ==
    /\ Command
    /\ LET doc == IF subscriptions[s].exists THEN subscriptions[s] ELSE NewSubscription
           current_subscriptions == doc.subscribed_product_ids
           updated ==
              IF arg = NoArg
              THEN [doc EXCEPT !.subscribed_product_ids = ActiveProductIds,
                               !.notification_preference = "all_products"]
              ELSE IF monitored_products[arg].exists /\ arg \notin current_subscriptions
              THEN [doc EXCEPT !.subscribed_product_ids = current_subscriptions \cup {arg},
                               !.notification_preference = "specific_products"]
              ELSE doc
       IN  subscriptions' = [subscriptions EXCEPT ![s] = updated]
    /\ UNCHANGED <<monitored_products, clock, is_running, running_tasks, task, check_all_docs,
                   turns, write_failures, kept>>
    /\ ForgetTurn
    /\ UNCHANGED classifier

\* unsubscribe (lines 504-551).
Unsubscribe(s, arg) ==
    /\ Command
    /\ LET doc == subscriptions[s]
           current_subscriptions == doc.subscribed_product_ids \ {arg}
           updated ==
              IF ~doc.exists THEN doc
              ELSE IF arg = NoArg
              THEN [doc EXCEPT !.subscribed_product_ids = {},
                               !.notification_preference = "specific_products"]
              ELSE IF monitored_products[arg].exists /\ arg \in doc.subscribed_product_ids
              THEN [doc EXCEPT !.subscribed_product_ids = current_subscriptions,
                               !.notification_preference =
                                   IF current_subscriptions # {} THEN "specific_products"
                                   ELSE "all_products"]
              ELSE doc
       IN  subscriptions' = [subscriptions EXCEPT ![s] = updated]
    /\ UNCHANGED <<monitored_products, clock, is_running, running_tasks, task, check_all_docs,
                   turns, write_failures, kept>>
    /\ ForgetTurn
    /\ UNCHANGED classifier

\* add_product (lines 632-667).  The id is derived from store and name; a name
\* already taken gets an id with a numeric suffix, which is another product.
AddProduct(p) ==
    /\ Command
    /\ ~monitored_products[p].exists
    /\ monitored_products' = [monitored_products EXCEPT ![p] = NewProduct]
    /\ fresh_turns' = [fresh_turns EXCEPT ![p] = 0]
    /\ oos_streak' = [oos_streak EXCEPT ![p] = 0]
    /\ unpersisted_event' = [unpersisted_event EXCEPT ![p] = FALSE]
    /\ UNCHANGED <<event_run, only_product_removed, failed_for, subscriptions, clock, is_running, running_tasks, task, check_all_docs, turns,
                   write_failures, notified_since, passed_against, oos_seen>>
    /\ ForgetTurn
    /\ UNCHANGED classifier

RemoveFromSubscriptionKeepPreference(doc, p) ==
    IF doc.exists /\ p \in doc.subscribed_product_ids
    THEN [doc EXCEPT
            !.subscribed_product_ids = @ \ {p},
            !.last_notified_timestamps[p] = NoTime]
    ELSE doc

\* The cascade of remove_product over one subscription (lines 683-694).
RemoveFromSubscription(doc, p) ==
    IF doc.exists /\ p \in doc.subscribed_product_ids
    THEN [doc EXCEPT
            !.subscribed_product_ids = @ \ {p},
            !.notification_preference =
                IF doc.subscribed_product_ids \ {p} # {} THEN "specific_products"
                ELSE "all_products",
            !.last_notified_timestamps[p] = NoTime]
    ELSE doc

\* remove_product (lines 669-702).
RemoveProduct(p) ==
    /\ Command
    /\ IF monitored_products[p].exists
       THEN /\ monitored_products' = [monitored_products EXCEPT ![p] = NoProduct]
            /\ subscriptions' = [s \in Subscribers |->
                                    RemoveFromSubscription(subscriptions[s], p)]
            /\ notified_since' = [s \in Subscribers |->
                                    [notified_since[s] EXCEPT ![p] = FALSE]]
            /\ passed_against' = [s \in Subscribers |->
                                    IF subscriptions[s].exists
                                       /\ p \in subscriptions[s].subscribed_product_ids
                                    THEN [passed_against[s] EXCEPT ![p] = NotPassed]
                                    ELSE passed_against[s]]
            /\ fresh_turns' = Disturb({p})
            /\ only_product_removed' =
                  {s \in Subscribers :
                      /\ subscriptions[s].exists
                      /\ subscriptions[s].subscribed_product_ids = {p}
                      /\ subscriptions[s].notification_preference = "specific_products"}
       ELSE UNCHANGED <<monitored_products, subscriptions, notified_since,
                        passed_against, fresh_turns, only_product_removed>>
    /\ UNCHANGED <<clock, is_running, running_tasks, task, check_all_docs, turns, write_failures,
                   oos_seen, oos_streak, unpersisted_event,
                   event_run, failed_for>>
    /\ ForgetTurn
    /\ UNCHANGED classifier

\* toggle_monitoring (lines 704-723).
ToggleMonitoring(p, enable) ==
    /\ Command
    /\ monitored_products' =
          IF monitored_products[p].exists
          THEN [monitored_products EXCEPT ![p].is_active = enable]
          ELSE monitored_products
    /\ UNCHANGED <<subscriptions, clock, is_running, running_tasks, task, check_all_docs, turns,
                   write_failures, kept>>
    /\ ForgetTurn
    /\ UNCHANGED classifier

WithStatusResetCounter(doc, status) ==
    [doc EXCEPT !.last_stock_status = status,
                !.consecutive_out_of_stock_checks = 0]

\* The update_data of set_status, check_product, check_all_products and
\* reset_all_statuses: last_checked and last_stock_status, nothing else.
WithStatus(doc, status) == [doc EXCEPT !.last_stock_status = status]

\* What the admin types at the confirmation prompt; NoArg is no reply within
\* the 30 seconds of line 737.
Replies == {"yes", "YES", "no", NoArg}

\* response.content.lower() (line 738).
LowerReply(answer) == IF answer \in {"yes", "YES"} THEN "yes" ELSE answer

\* Lines 736-743: the reset goes on when the lowercased reply is 'yes'.
Confirmed(answer) == answer # NoArg /\ LowerReply(answer) = "yes"

\* reset_all_statuses (lines 725-773); answer is the reply to the confirmation prompt.
ResetAllStatuses(answer) ==
    /\ Command
    /\ IF Confirmed(answer)
       THEN /\ monitored_products' =
                 [p \in Products |->
                    IF monitored_products[p].exists
                    THEN WithStatus(monitored_products[p], "out_of_stock")
                    ELSE monitored_products[p]]
            /\ fresh_turns' = Disturb(ExistingProductIds)
       ELSE UNCHANGED <<monitored_products, fresh_turns>>
    /\ UNCHANGED <<subscriptions, clock, is_running, running_tasks, task, check_all_docs, turns,
                   write_failures, notified_since, passed_against, oos_seen, oos_streak,
                   unpersisted_event,
                   event_run, only_product_removed, failed_for>>
    /\ ForgetTurn
    /\ UNCHANGED classifier

ValidStatusAny(status) == TRUE

\* Line 780: the values set_status accepts.
ValidStatus(status) == status \in Statuses

\* set_status (lines 775-803).
SetStatus(p, status) ==
    /\ Command
    /\ IF ValidStatus(status) /\ monitored_products[p].exists
       THEN /\ monitored_products' =
                 [monitored_products EXCEPT ![p] = WithStatus(@, status)]
            /\ fresh_turns' = Disturb({p})
       ELSE UNCHANGED <<monitored_products, fresh_turns>>
    /\ UNCHANGED <<subscriptions, clock, is_running, running_tasks, task, check_all_docs, turns,
                   write_failures, notified_since, passed_against, oos_seen, oos_streak,
                   unpersisted_event,
                   event_run, only_product_removed, failed_for>>
    /\ ForgetTurn
    /\ UNCHANGED classifier

SubscriptionsAfterCheckStamped(p, status) ==
    [s \in Subscribers |->
        IF status = "in_stock" /\ s \in ResolveSubscribers(p)
        THEN [subscriptions[s] EXCEPT !.last_notified_timestamps[p] = clock + 1]
        ELSE subscriptions[s]]

\* Lines 817-847 and 887-895: a check reports the status in the reply and updates
\* the product; it calls neither send_restock_notification nor a subscription
\* update, whatever the status.
SubscriptionsAfterCheck(p, status) == subscriptions

\* check_product (lines 805-854); status is what check_stock_status returned.
CheckProduct(p, status) ==
    /\ Command
    /\ IF monitored_products[p].exists
       THEN /\ monitored_products' =
                 [monitored_products EXCEPT ![p] = WithStatus(@, status)]
            /\ subscriptions' = SubscriptionsAfterCheck(p, status)
            /\ fresh_turns' = Disturb({p})
       ELSE UNCHANGED <<monitored_products, subscriptions, fresh_turns>>
    /\ UNCHANGED <<clock, is_running, running_tasks, task, check_all_docs, turns,
                   write_failures, notified_since, passed_against, oos_seen, oos_streak,
                   unpersisted_event,
                   event_run, only_product_removed, failed_for>>
    /\ ForgetTurn
    /\ UNCHANGED classifier

\* check_all_products (lines 856-940): the query, then one product per step.
CheckAllProducts ==
    /\ Command
    /\ check_all_docs = <<>>
    /\ ExistingProductIds # {}
    /\ check_all_docs' = InOrder(ExistingProductIds)
    /\ UNCHANGED <<store, is_running, running_tasks, task, turns, write_failures, kept>>
    /\ ForgetTurn
    /\ UNCHANGED classifier

\* Lines 883-907: a product's check returns status and the document is updated;
\* update() of a removed document raises and ends the command.
CheckAllStep(status) ==
    /\ check_all_docs # <<>>
    /\ LET p == Head(check_all_docs)
       IN  IF monitored_products[p].exists
           THEN /\ monitored_products' =
                     [monitored_products EXCEPT ![p] = WithStatus(@, status)]
                /\ subscriptions' = SubscriptionsAfterCheck(p, status)
                /\ fresh_turns' = Disturb({p})
                /\ check_all_docs' = Tail(check_all_docs)
           ELSE /\ check_all_docs' = <<>>
                /\ UNCHANGED <<monitored_products, subscriptions, fresh_turns>>
    /\ UNCHANGED <<clock, is_running, running_tasks, task, turns, commands,
                   write_failures, notified_since, passed_against, oos_seen, oos_streak,
                   unpersisted_event,
                   event_run, only_product_removed, failed_for>>
    /\ ForgetTurn
    /\ UNCHANGED classifier

-----------------------------------------------------------------------------

Next ==
    \/ OnReady
    \/ MonitorStart
    \/ \E cur \in Statuses : MonitorTurn(cur)
    \/ \E outcome \in DeliveryOutcomes, recorded \in BOOLEAN :
          SendRestockNotification(outcome, recorded)
    \/ \E s \in Subscribers, arg \in Products \cup {NoArg} : Subscribe(s, arg)
    \/ \E s \in Subscribers, arg \in Products \cup {NoArg} : Unsubscribe(s, arg)
    \/ \E p \in Products : AddProduct(p)
    \/ \E p \in Products : RemoveProduct(p)
    \/ \E p \in Products, enable \in BOOLEAN : ToggleMonitoring(p, enable)
    \/ \E answer \in Replies : ResetAllStatuses(answer)
    \/ \E p \in Products, status \in StatusArgs : SetStatus(p, status)
    \/ \E p \in Products, status \in Statuses : CheckProduct(p, status)
    \/ CheckAllProducts
    \/ \E status \in Statuses : CheckAllStep(status)

Spec == Init /\ [][Next]_vars

-----------------------------------------------------------------------------
\* check_stock_status and fetch_website_content (lines 251-400).

\* A text is a sequence of characters, so that lower(), ' '.join() and the
\* substring test act on it as they do in the code.
LowerChar(c) == CASE c = "O" -> "o" [] c = "K" -> "k" [] OTHER -> c

Lower(text) == [i \in DOMAIN text |-> LowerChar(text[i])]

\* sub in text
Contains(sub, text) ==
    \E i \in 0..(Len(text) - Len(sub)) : SubSeq(text, i + 1, i + Len(sub)) = sub

\* ' '.join(items)
RECURSIVE Join(_)
Join(items) ==
    IF items = <<>> THEN <<>>
    ELSE IF Len(items) = 1 THEN items[1]
    ELSE items[1] \o <<" ">> \o Join(Tail(items))

\* An attribute of the matched element: BeautifulSoup hands class as a list of
\* tokens (is_list, items the tokens) and any other attribute as one string
\* (items holds that one text).
AttrNames == {"class", "data-stock", "data-status"}
NoAttr == [present |-> FALSE, is_list |-> FALSE, items |-> <<>>]
ClassValues == {[present |-> TRUE, is_list |-> TRUE, items |-> <<t>>] :
                   t \in {<<"O", "K">>, <<"n", "o">>}}
StringValues == {[present |-> TRUE, is_list |-> FALSE, items |-> <<t>>] :
                    t \in {<<"O", "K">>, <<"n", "o">>}}

\* What iterating over the attribute's value yields: the tokens of a list, the
\* characters of a string.
Elements(value) ==
    IF value.is_list THEN value.items
    ELSE [i \in 1..Len(value.items[1]) |-> <<value.items[1][i]>>]

\* The attribute as it stands in the markup.
AttrText(value) == IF value.is_list THEN Join(value.items) ELSE value.items[1]

ElementAttrs ==
    {f \in [AttrNames -> {NoAttr} \cup ClassValues \cup StringValues] :
        \A a \in AttrNames : f[a].present => (f[a].is_list <=> a = "class")}

ElementTexts == {<<>>, <<"O", "k">>, <<"n", "o">>}
ExpectedTexts == {<<"o", "k">>, <<"O", "K">>, <<"k">>}

OutOfStockIndicators ==
    {"sold out", "out of stock", "currently unavailable",
     "temporarily out of stock", "not available"}

\* Most elements a page has of one kind.
MaxElements == 2

\* A fetched page, by what check_stock_status looks at.  kind: "markup", "empty"
\* (the empty string) or "rejected" (markup the parser refuses); raises: the
\* evaluation of the selectors raises.
BlankPage ==
    [kind |-> "empty", out_of_stock_phrases |-> {}, add_to_cart_text |-> FALSE,
     add_to_cart_buttons |-> 0, price_elements |-> 0, shipping_elements |-> 0,
     raises |-> FALSE, element_found |-> FALSE, text |-> <<>>,
     attrs |-> [a \in AttrNames |-> NoAttr]]

NoContent == [BlankPage EXCEPT !.kind = "none"]
NotFetched == [BlankPage EXCEPT !.kind = "not_fetched"]
RejectedPage == [BlankPage EXCEPT !.kind = "rejected"]
Markup == [BlankPage EXCEPT !.kind = "markup"]

TargetPages ==
    {[Markup EXCEPT !.out_of_stock_phrases = phrases, !.add_to_cart_text = in_text,
                    !.add_to_cart_buttons = buttons, !.price_elements = prices,
                    !.shipping_elements = shipping, !.raises = raises] :
        phrases \in {{}} \cup {{x} : x \in OutOfStockIndicators},
        in_text \in BOOLEAN, buttons \in 0..MaxElements, prices \in 0..MaxElements,
        shipping \in 0..MaxElements, raises \in BOOLEAN}

OtherPages ==
    {[Markup EXCEPT !.raises = TRUE], Markup}
    \cup {[Markup EXCEPT !.element_found = TRUE, !.text = text, !.attrs = attrs] :
             text \in ElementTexts, attrs \in ElementAttrs}

StoreNames == {"Target", "TARGET", "Pokemon Center"}

\* product['store_name'].lower()
LowerStoreName(name) == IF name \in {"Target", "TARGET"} THEN "target" ELSE "pokemon center"

IsTarget(prod) == LowerStoreName(prod.store_name) = "target"

\* The product documents check_stock_status is called with; the Target branch
\* does not read expected_in_stock_text.
ProductArgs ==
    {prod \in [store_name : StoreNames, requires_javascript : BOOLEAN,
               expected_in_stock_text : ExpectedTexts] :
        IsTarget(prod) => prod.expected_in_stock_text = <<"o", "k">>}

RenderOutcomes == {"ok", "driver_error", "timeout"}
NotRun == "not_run"
FetchOutcomes == {"ok", "http_error", "timeout"}

\* What a fetch of the product's url meets: how the Selenium run (made only for
\* a product that requires it) and the aiohttp request end, and the page they
\* return when they succeed.
Sites(prod) ==
    {[selenium |-> rendered, aiohttp |-> fetched, page |-> page] :
        rendered \in IF prod.requires_javascript THEN RenderOutcomes ELSE {NotRun},
        fetched \in FetchOutcomes,
        page \in {BlankPage, RejectedPage}
                 \cup (IF IsTarget(prod) THEN TargetPages ELSE OtherPages)}

\* fetch_with_aiohttp (lines 300-313).
FetchWithAiohttp(s) == IF s.aiohttp = "ok" THEN s.page ELSE NoContent

\* fetch_website_content (lines 251-298).
FetchWebsiteContent(requires_javascript, s) ==
    IF requires_javascript
    THEN IF s.selenium = "ok" THEN s.page ELSE FetchWithAiohttp(s)
    ELSE FetchWithAiohttp(s)

InStockIndicatorsPerElement(page) ==
    (IF page.add_to_cart_text THEN 1 ELSE 0)
    + page.add_to_cart_buttons
    + page.price_elements
    + page.shipping_elements

\* in_stock_indicators (lines 340-368).
InStockIndicators(page) ==
    (IF page.add_to_cart_text THEN 1 ELSE 0)
    + (IF page.add_to_cart_buttons > 0 THEN 1 ELSE 0)
    + (IF page.price_elements > 0 THEN 1 ELSE 0)
    + (IF page.shipping_elements > 0 THEN 1 ELSE 0)

ScoredPolicyScoreFirst(page) ==
    IF page.raises THEN "unknown"
    ELSE IF InStockIndicators(page) >= 2 THEN "in_stock"
    ELSE "out_of_stock"

\* The Target branch (lines 325-378); an exception raised after line 336 ends in
\* the handler of line 397.
ScoredPolicy(page) ==
    IF page.out_of_stock_phrases # {} THEN "out_of_stock"
    ELSE IF page.raises THEN "unknown"
    ELSE IF InStockIndicators(page) >= 2 THEN "in_stock"
    ELSE IF InStockIndicators(page) = 0 THEN "out_of_stock"
    ELSE "out_of_stock"

\* The branch of the other stores (lines 380-396).
GenericPolicy(prod, page) ==
    LET expected == Lower(prod.expected_in_stock_text)
    IN  IF page.raises THEN "unknown"
        ELSE IF ~page.element_found THEN "unknown"
        ELSE IF Contains(expected, Lower(page.text)) THEN "in_stock"
        ELSE IF \E attr \in AttrNames :
                   /\ page.attrs[attr].present
                   /\ Contains(expected, Lower(Join(Elements(page.attrs[attr]))))
             THEN "in_stock"
        ELSE "out_of_stock"

\* check_stock_status (lines 315-400) on the fetched content.  The markup is
\* parsed at line 322, before the try of line 323.
CheckStockStatus(prod, fetched) ==
    IF fetched.kind \in {"none", "empty"} THEN "unknown"
    ELSE IF fetched.kind = "rejected" THEN "raised"
    ELSE IF IsTarget(prod) THEN ScoredPolicy(fetched)
    ELSE GenericPolicy(prod, fetched)

ClassifierInit ==
    /\ BotInit(0, "specific_products", FALSE, FALSE)
    /\ product \in ProductArgs
    /\ site \in Sites(product)
    /\ content = NotFetched
    /\ returned = NoArg

\* Line 320: the fetch returns.
Fetch ==
    /\ content = NotFetched
    /\ content' = FetchWebsiteContent(product.requires_javascript, site)
    /\ UNCHANGED <<product, site, returned>>
    /\ UNCHANGED <<store, is_running, running_tasks, task, check_all_docs, turns, commands,
                   write_failures, turn, kept>>

\* Lines 321-400: the content is classified.
Classify ==
    /\ content # NotFetched
    /\ returned = NoArg
    /\ returned' = CheckStockStatus(product, content)
    /\ UNCHANGED <<product, site, content>>
    /\ UNCHANGED <<store, is_running, running_tasks, task, check_all_docs, turns, commands,
                   write_failures, turn, kept>>

ClassifierNext == Fetch \/ Classify

ClassifierSpec == ClassifierInit /\ [][ClassifierNext]_vars

-----------------------------------------------------------------------------
\* Properties.

\* A step in which check_stock_status returns and the turn decides.
Classified == pc = "check" /\ turn'.written # "none"

\* C1, as stated: a subscriber is delivered at most one notification for a product while
\* the product's persisted last_restock_time is unchanged, also when a cycle is
\* run again on the same state or the product write failed.
AtMostOneNotificationPerRestock == turn.repeated = {}

\* C2: a turn fires a restock event iff the page is classified in_stock, the
\* status it read is out_of_stock and the counter it read is at least 2; the
\* event's write stamps last_restock_time.
RestockFiresIff ==
    turn.written # "none" =>
        /\ turn.fired <=> (turn.cur = "in_stock" /\ turn.prev = "out_of_stock" /\ turn.cnt >= 2)
        /\ (turn.fired /\ turn.written = "ok") =>
               monitored_products[turn.id].last_restock_time = clock

RestockFired == turn.fired /\ turn.written = "ok" /\ turn.cnt = 2

\* C3, as stated: when a turn fires, the product's two immediately preceding
\* cycle classifications were both out_of_stock.
FiresOnlyAfterTwoOutOfStockCycles ==
    [][(Classified /\ turn'.fired) => oos_streak[turn'.id] >= 2]_vars

\* C4: a turn that read status unknown and classifies in_stock fires nothing and
\* sends nothing, whatever the counter; and a product id that no cycle ever
\* classified out_of_stock never fires.
UnknownToInStockNeverFires ==
    /\ (turn.written # "none" /\ turn.prev = "unknown" /\ turn.cur = "in_stock") =>
           (~turn.fired /\ turn.attempted = {} /\ turn.delivered = {})
    /\ (turn.written # "none" /\ turn.fired) => oos_seen[turn.id]

UnknownToInStockSeen ==
    turn.written # "none" /\ turn.prev = "unknown" /\ turn.cur = "in_stock"
    /\ turn.cnt >= 2

\* C5: from a newly added product with nothing else touching it and its writes
\* succeeding, the classifications out_of_stock, out_of_stock, in_stock fire on
\* the third turn, and out_of_stock, in_stock do not fire on the second.
FreshProductSequences ==
    [][(Classified /\ turn'.cur = "in_stock") =>
          /\ (fresh_turns[turn'.id] = 2 /\ oos_streak[turn'.id] = 2) => turn'.fired
          /\ (fresh_turns[turn'.id] = 1 /\ oos_streak[turn'.id] = 1) => ~turn'.fired]_vars

ThirdFreshTurnFired ==
    turn.written = "pending" /\ turn.fired /\ fresh_turns[turn.id] = 2

\* C6: a turn whose write succeeds leaves the persisted counter at (the counter
\* the turn read) + 1 when it classified out_of_stock, at 0 when in_stock, and
\* as it was when unknown.
CounterFollowsClassification ==
    [][turn'.written = "ok" =>
          LET old == monitored_products[turn'.id].consecutive_out_of_stock_checks
              new == monitored_products'[turn'.id].consecutive_out_of_stock_checks
          IN  /\ turn'.cur = "out_of_stock" => new = turn'.cnt + 1
              /\ turn'.cur = "in_stock" => new = 0
              /\ turn'.cur = "unknown" => new = old]_vars

UnknownKeptCounter ==
    turn.written = "ok" /\ turn.cur = "unknown"
    /\ monitored_products[turn.id].consecutive_out_of_stock_checks = 2

\* C7, as stated: a product whose persisted status is in_stock has counter 0.
InStockMeansZeroCounter ==
    \A p \in Products :
        (monitored_products[p].exists /\ monitored_products[p].last_stock_status = "in_stock")
            => monitored_products[p].consecutive_out_of_stock_checks = 0

\* C8: the counter is never negative, does not decrease between two states in
\* which the status is out_of_stock, and decreases only in a step that sets it
\* to 0 with the status becoming in_stock.
CounterDecreasesOnlyOnReset ==
    [][\A p \in Products :
          LET old == monitored_products[p]
              new == monitored_products'[p]
          IN  (old.exists /\ new.exists) =>
                /\ new.consecutive_out_of_stock_checks >= 0
                /\ (old.last_stock_status = "out_of_stock"
                    /\ new.last_stock_status = "out_of_stock")
                      => new.consecutive_out_of_stock_checks
                            >= old.consecutive_out_of_stock_checks
                /\ new.consecutive_out_of_stock_checks < old.consecutive_out_of_stock_checks
                      => /\ new.consecutive_out_of_stock_checks = 0
                         /\ new.last_stock_status = "in_stock"]_vars

CounterWasReset ==
    turn.written = "ok" /\ turn.cur = "in_stock" /\ turn.cnt >= 2
    /\ monitored_products[turn.id].consecutive_out_of_stock_checks = 0

\* C9, as stated: when an event fires (and is written), a resolved subscriber
\* is sent to iff it has no last-notified timestamp for the product or that
\* timestamp is older than the last_restock_time of this event.
GateComparesWithThisEvent ==
    (turn.fired /\ turn.written = "ok") =>
        \A s \in turn.resolved :
            s \in turn.attempted <=>
                \/ turn.gate_at[s] = NoTime
                \/ turn.gate_at[s] < monitored_products[turn.id].last_restock_time

\* C10, as stated: when a new restock event fires (not the repeat of an event
\* whose write failed), a delivery is attempted to every resolved subscriber.
NewEventClearsGate ==
    (turn.fired /\ turn.fresh_event /\ turn.written \in {"ok", "failed"}) =>
        turn.resolved \subseteq turn.attempted

\* C11, as stated: after a successful delivery to a subscriber for an event that
\* is persisted, the subscriber's last-notified timestamp for the product equals
\* the event's last_restock_time.
LastNotifiedIsEventTime ==
    (turn.fired /\ turn.written = "ok") =>
        \A s \in turn.timestamped :
            subscriptions[s].last_notified_timestamps[turn.id]
                = monitored_products[turn.id].last_restock_time

NoRedeliveryWhileInStock ==
    [][(Classified /\ turn'.cur = "in_stock" /\ event_run[turn'.id]) =>
          /\ ~turn'.fired
          /\ turn'.resolved = {} /\ turn'.attempted = {}
          /\ pc' # "send"]_vars

InStockAgainAfterEvent ==
    /\ turn.written = "ok" /\ turn.cur = "in_stock" /\ turn.prev = "in_stock"
    /\ event_run[turn.id]
    /\ \E s \in Subscribers : subscriptions[s].last_notified_timestamps[turn.id] # NoTime

\* C14: when an event fires for a product, the notification targets are exactly
\* the subscriptions whose product list contains it together with those whose
\* preference is all_products, and no target is sent to twice in the turn.
TargetsAreTheUnionOnce ==
    [][/\ (Classified /\ turn'.fired) =>
              turn'.resolved =
                  {s \in Subscribers :
                      /\ subscriptions[s].exists
                      /\ \/ turn'.id \in subscriptions[s].subscribed_product_ids
                         \/ subscriptions[s].notification_preference = "all_products"}
       /\ pc' = "send" =>
              /\ target' \in turn'.attempted
              /\ turn'.attempted \cap subscriber_ids' = {}
              /\ turn'.attempted \subseteq turn'.resolved
       /\ (pc = "send" /\ pc' = "send" /\ subscriber_ids' # subscriber_ids) =>
              target' \notin turn.attempted]_vars

TargetInBothSets ==
    /\ turn.fired
    /\ \E s \in turn.attempted :
          /\ turn.id \in subscriptions[s].subscribed_product_ids
          /\ subscriptions[s].notification_preference = "all_products"

\* C15: a subscription whose preference is all_products is a notification
\* target of every event that fires, whether or not the product is in its
\* stored product list.
AllProductsSubscriberIsTarget ==
    [][(Classified /\ turn'.fired) =>
          \A s \in Subscribers :
              (subscriptions[s].exists
               /\ subscriptions[s].notification_preference = "all_products")
                  => s \in turn'.resolved]_vars

TargetOutsideItsList ==
    /\ turn.fired
    /\ \E s \in turn.attempted :
          /\ turn.id \notin subscriptions[s].subscribed_product_ids
          /\ subscriptions[s].notification_preference = "all_products"

\* C16, as stated: after remove_product of an existing product, no subscription
\* has the product in its list or an entry for it in its last-notified map.
RemoveProductClearsEverySubscription ==
    [][\A p \in Products :
          (monitored_products[p].exists /\ ~monitored_products'[p].exists) =>
              \A s \in Subscribers :
                  /\ p \notin subscriptions'[s].subscribed_product_ids
                  /\ subscriptions'[s].last_notified_timestamps[p] = NoTime]_vars

\* C17: remove_product applied to a subscription whose list is exactly the
\* removed product and whose preference is specific_products leaves it with an
\* empty list and preference all_products.
RemovingOnlyProductMakesAllProducts ==
    [][\A p \in Products, s \in Subscribers :
          (/\ monitored_products[p].exists /\ ~monitored_products'[p].exists
           /\ subscriptions[s].exists
           /\ subscriptions[s].subscribed_product_ids = {p}
           /\ subscriptions[s].notification_preference = "specific_products")
              => /\ subscriptions'[s].subscribed_product_ids = {}
                 /\ subscriptions'[s].notification_preference = "all_products"]_vars

OnlyProductRemoved ==
    \E s \in only_product_removed :
        /\ subscriptions[s].subscribed_product_ids = {}
        /\ subscriptions[s].notification_preference = "all_products"

\* A step in which the awaited send to subscriber s for product p returns with
\* the message delivered.
DeliveryConfirmed(s, p) ==
    /\ pc = "send" /\ target = s /\ turn.id = p
    /\ s \notin turn.delivered /\ s \in turn'.delivered

\* A step in which the awaited send returns without the message delivered.
DeliveryFailed ==
    /\ pc = "send" /\ turn' # turn
    /\ target \notin turn'.delivered

\* C18, as stated: a subscriber's last-notified timestamp for a product changes
\* only in a step where a delivery to that subscriber for that product was
\* confirmed.
LastNotifiedChangesOnlyOnDelivery ==
    [][\A s \in Subscribers, p \in Products :
          subscriptions'[s].last_notified_timestamps[p]
              # subscriptions[s].last_notified_timestamps[p]
          => DeliveryConfirmed(s, p)]_vars

\* C18, amended: a subscriber's last-notified timestamp for a product is set
\* only in a step where a delivery to that subscriber for that product was
\* confirmed, and is otherwise changed only by remove_product of that product,
\* which deletes it; a delivery that fails leaves the subscriber's map unchanged.
LastNotifiedSetOnlyOnDelivery ==
    [][/\ \A s \in Subscribers, p \in Products :
              subscriptions'[s].last_notified_timestamps[p]
                  # subscriptions[s].last_notified_timestamps[p]
              => \/ DeliveryConfirmed(s, p)
                 \/ /\ monitored_products[p].exists /\ ~monitored_products'[p].exists
                    /\ subscriptions'[s].last_notified_timestamps[p] = NoTime
       /\ DeliveryFailed =>
              subscriptions'[target].last_notified_timestamps
                  = subscriptions[target].last_notified_timestamps]_vars

FailedDeliveryLeftNoTimestamp ==
    /\ turn.written \in {"ok", "failed"}
    /\ \E s \in turn.attempted \ turn.delivered :
          subscriptions[s].last_notified_timestamps[turn.id] = NoTime

\* C19, as stated: a subscriber whose send for a product ended in a transient
\* error is not sent to again in the same turn, nothing is sent in a turn that
\* fires no event, and the subscriber is sent to again in the next turn in which
\* an event of that product fires and the subscriber is a target.
TransientErrorRetriedAtNextEvent ==
    /\ turn.attempted \cap subscriber_ids = {}
    /\ (turn.written # "none" /\ ~turn.fired) => turn.attempted = {}
    /\ (turn.fired /\ turn.written \in {"ok", "failed"}) =>
           \A s \in turn.resolved :
               <<s, turn.id>> \in failed_for => s \in turn.attempted

FailedWriteLeavesProduct ==
    [][/\ turn'.written = "failed" =>
              /\ monitored_products' = monitored_products
              /\ products_docs' = Tail(products_docs)
              /\ pc' = IF Tail(products_docs) = <<>> THEN "idle" ELSE "check"
       /\ (pc = "idle" /\ pc' = "check") =>
              \A i \in 1..Len(products_docs') :
                 LET doc == products_docs'[i]
                 IN  /\ doc.last_stock_status
                          = monitored_products[doc.id].last_stock_status
                     /\ doc.consecutive_out_of_stock_checks
                          = monitored_products[doc.id].consecutive_out_of_stock_checks
                     /\ doc.last_restock_time
                          = monitored_products[doc.id].last_restock_time]_vars

FailedWriteThenNextProduct ==
    /\ turn.written = "failed" /\ pc = "check"
    /\ monitored_products[turn.id].exists
    /\ monitored_products[turn.id].last_stock_status = turn.prev
    /\ turn.cur # turn.prev

\* C23, as stated: when the fetch fails, be it the aiohttp request or the
\* Selenium run of a product that requires rendering, check_stock_status
\* returns unknown, which leaves the counter as it is (for any content the
\* parser takes).
FetchFailureIsNoContent ==
    (/\ returned # NoArg
     /\ content.kind # "rejected"
     /\ \/ site.selenium \in RenderOutcomes \ {"ok"}
        \/ (site.selenium = NotRun /\ site.aiohttp # "ok"))
        => /\ returned = "unknown"
           /\ ~CounterUpdate(returned, 0).set

\* C24, as stated: for every product and every outcome of the fetch,
\* check_stock_status returns one of in_stock, out_of_stock, unknown, and it
\* returns unknown, raising nothing, when there is no content, when the content
\* is empty and when parsing it raises.
ClassifierReturnsAStatus ==
    returned # NoArg =>
        /\ returned \in Statuses
        /\ content.kind \in {"none", "empty", "rejected"} => returned = "unknown"
        /\ (content.kind = "markup" /\ content.raises
            /\ content.out_of_stock_phrases = {}) => returned = "unknown"

\* A call of check_stock_status for a Target product has returned, and the
\* content it got was markup the parser took.
ScoredCallReturned == returned # NoArg /\ IsTarget(product) /\ content.kind = "markup"

\* C25: under the scored policy a page whose text holds one of the negative
\* phrases is classified out_of_stock, for every combination of the four
\* positive indicators.
NegativePhraseMeansOutOfStock ==
    (ScoredCallReturned /\ content.out_of_stock_phrases # {}) => returned = "out_of_stock"

NegativePhraseWithAllPositives ==
    /\ ScoredCallReturned /\ returned = "out_of_stock"
    /\ content.out_of_stock_phrases = {"currently unavailable"}
    /\ content.add_to_cart_text /\ content.add_to_cart_buttons > 0
    /\ content.price_elements > 0 /\ content.shipping_elements > 0

\* C26: under the scored policy, with no negative phrase on the page, the score
\* is the number of the four positive indicators that are present, each counted
\* once however many elements match, and the result is out_of_stock for a score
\* of 0 or 1 and in_stock for a score of 2, 3 or 4.
ScoreDecides ==
    (ScoredCallReturned /\ content.out_of_stock_phrases = {} /\ ~content.raises) =>
        LET present == (IF content.add_to_cart_text THEN {"text"} ELSE {})
                       \cup (IF content.add_to_cart_buttons > 0 THEN {"button"} ELSE {})
                       \cup (IF content.price_elements > 0 THEN {"price"} ELSE {})
                       \cup (IF content.shipping_elements > 0 THEN {"shipping"} ELSE {})
            score == Cardinality(present)
        IN  /\ InStockIndicators(content) = score
            /\ score \in 0..4
            /\ returned = IF score >= 2 THEN "in_stock" ELSE "out_of_stock"

OneIndicatorWithTwoElements ==
    /\ ScoredCallReturned /\ returned = "out_of_stock"
    /\ content.out_of_stock_phrases = {} /\ ~content.raises
    /\ content.add_to_cart_buttons = 2
    /\ ~content.add_to_cart_text /\ content.price_elements = 0
    /\ content.shipping_elements = 0

\* C27, as stated: under the generic policy the result is unknown when no
\* element matches the selector; when one matches, it is in_stock if the
\* expected text occurs, whatever the case of the letters, in the element's text
\* or in its class, data-stock or data-status attribute, and out_of_stock
\* otherwise.
GenericPolicyMatchesTextOrAttribute ==
    (returned # NoArg /\ ~IsTarget(product) /\ content.kind = "markup"
     /\ ~content.raises) =>
        IF ~content.element_found THEN returned = "unknown"
        ELSE LET expected == Lower(product.expected_in_stock_text)
                 occurs == \/ Contains(expected, Lower(content.text))
                           \/ \E a \in AttrNames :
                                 /\ content.attrs[a].present
                                 /\ Contains(expected, Lower(AttrText(content.attrs[a])))
             IN  returned = IF occurs THEN "in_stock" ELSE "out_of_stock"

\* A step that hands a cycle its query result.
CycleStarts ==
    \/ Len(products_docs') > Len(products_docs)
    \/ (pc = "idle" /\ pc' = "check")

\* C28: at most one monitor_restocks task exists however often on_ready is
\* dispatched, a cycle in progress is that task's, and a cycle starts only when
\* the previous one has handled its last product.
OnlyOneCycleAtATime ==
    [][/\ running_tasks' <= 1
       /\ pc' # "idle" => (running_tasks' = 1 /\ is_running')
       /\ CycleStarts => /\ pc = "idle" /\ products_docs = <<>>
                         /\ subscriber_ids = {} /\ target = NoArg
                         /\ running_tasks = 1]_vars

SecondCycleStarted ==
    /\ running_tasks = 1 /\ commands > 0
    /\ turns >= 1 /\ pc = "check"
    /\ Len(products_docs) = Cardinality(ActiveProductIds)
    /\ Head(products_docs).id = "p1"

\* A step of the cycle's turn in progress: the classification or a send has
\* returned.
TurnStep == pc # "idle" /\ turn'.written # "none" /\ turn' # turn

\* The part of C29 about the cycle: the query result a cycle starts with is the
\* products that are active then, each once; the cycle handles its head
\* product, touches no other product and no other product's last-notified
\* timestamps, and drops the head when that product's turn has ended.
CycleHandlesActiveAtStart ==
    /\ CycleStarts =>
           /\ {products_docs'[i].id : i \in 1..Len(products_docs')}
                 = {p \in Products : monitored_products[p].exists
                                     /\ monitored_products[p].is_active}
           /\ \A i, j \in 1..Len(products_docs') :
                 products_docs'[i].id = products_docs'[j].id => i = j
    /\ ~CycleStarts =>
           \/ products_docs' = products_docs
           \/ /\ products_docs # <<>> /\ products_docs' = Tail(products_docs)
              /\ turn'.written \in {"ok", "failed"}
    /\ TurnStep =>
           LET p == Head(products_docs).id
           IN  /\ turn'.id = p
               /\ \A q \in Products \ {p} :
                     /\ monitored_products'[q] = monitored_products[q]
                     /\ \A s \in Subscribers :
                           subscriptions'[s].last_notified_timestamps[q]
                             = subscriptions[s].last_notified_timestamps[q]
               /\ turn'.written \in {"ok", "failed"} => products_docs' = Tail(products_docs)

RemovedProductIsNoOp ==
    [][(TurnStep /\ ~monitored_products[Head(products_docs).id].exists) =>
          /\ pc' # "send"
          /\ ~monitored_products'[Head(products_docs).id].exists
          /\ turn'.written \in {"ok", "failed"} =>
                 /\ products_docs' = Tail(products_docs)
                 /\ pc' = IF Tail(products_docs) = <<>> THEN "idle" ELSE "check"]_vars

\* C31: the last_restock_time of a product document changes only in the step
\* that ends a turn of that product in which the restock branch was taken and
\* the product write succeeded, and the new value is later than the old one.
\* (A document remove_product deleted, or add_product created, is not a change
\* of a product's field.)
RestockTimeChangesOnlyOnPersistedEvent ==
    [][\A p \in Products :
          (/\ monitored_products[p].exists
           /\ monitored_products'[p].exists
           /\ monitored_products'[p].last_restock_time # monitored_products[p].last_restock_time)
          => /\ pc \in {"check", "send"}
             /\ turn'.id = p
             /\ turn'.fired
             /\ turn'.written = "ok"
             /\ monitored_products'[p].last_restock_time
                    > monitored_products[p].last_restock_time]_vars

\* A turn has replaced the last_restock_time it read by a later one.
RestockTimeMovedForward ==
    /\ turn.fired
    /\ turn.written = "ok"
    /\ monitored_products[turn.id].exists
    /\ monitored_products[turn.id].last_restock_time > turn.restock_time

\* A step of a chat command: every command is counted when it is taken up, and
\* check_all_products goes on through its list afterwards.
CommandStep == commands' # commands \/ check_all_docs' # check_all_docs

\* The steps of the admin commands check_product and check_all_products.
CheckStep ==
    \/ \E p \in Products, status \in Statuses : CheckProduct(p, status)
    \/ CheckAllProducts
    \/ \E status \in Statuses : CheckAllStep(status)

\* C32: no step of check_product or check_all_products starts a send, records a
\* delivery, or changes a subscription (its last-notified map included),
\* whatever status the check observes.
ChecksNeverNotify ==
    [][\/ /\ subscriptions' = subscriptions
          /\ notified_since' = notified_since
          /\ pc' = pc
          /\ target' = target
       \/ ~(CommandStep /\ CheckStep)]_vars

\* check_all_products has found in_stock for a product that was out of stock
\* for two cycles and has a subscriber that was never notified of it, and is
\* still under way.
CheckedInStockMidway ==
    \E p \in Products, s \in Subscribers :
        /\ check_all_docs # <<>>
        /\ Head(check_all_docs) # p
        /\ monitored_products[p].last_stock_status = "in_stock"
        /\ monitored_products[p].consecutive_out_of_stock_checks >= RestockThreshold
        /\ s \in ResolveSubscribers(p)
        /\ subscriptions[s].last_notified_timestamps[p] = NoTime

\* C33, as stated: a cycle that classifies a product in_stock after out_of_stock
\* classifications in its two preceding cycles (all of them written) fires a
\* restock event, whatever commands ran in between.
RestockFiresDespiteCommands ==
    [][(/\ Classified
        /\ turn'.cur = "in_stock"
        /\ oos_streak[turn'.id] >= RestockThreshold
        /\ write_failures = 0)
       => turn'.fired]_vars

\* C34, as stated: the previous status and the counter a turn works with are
\* those the store holds for the product when the turn runs its state machine,
\* also when a command wrote the product after the cycle's query.
TurnReadsPersistedValues ==
    [][(Classified /\ monitored_products[turn'.id].exists) =>
          /\ turn'.prev = monitored_products[turn'.id].last_stock_status
          /\ turn'.cnt = monitored_products[turn'.id].consecutive_out_of_stock_checks]_vars

\* C35, as stated: when unsubscribe removes product p from the list of
\* subscriber s, the resolver no longer returns s for p, also when p was the
\* only product of the list.
UnsubscribedIsNoTarget ==
    [][\A s \in Subscribers, p \in Products :
          (/\ Unsubscribe(s, p)
           /\ subscriptions[s].exists
           /\ monitored_products[p].exists
           /\ p \in subscriptions[s].subscribed_product_ids)
          => ~(s \in ResolveSubscribers(p))']_vars

\* C36, as stated: remove_product leaves the preference of an all_products
\* subscription as it is, and the subscription is still resolved for every
\* product that is active after the removal.
RemoveProductKeepsAllProducts ==
    [][\A s \in Subscribers :
          (/\ \E p \in Products : RemoveProduct(p)
           /\ subscriptions[s].exists
           /\ subscriptions[s].notification_preference = "all_products")
          => /\ subscriptions'[s].notification_preference = "all_products"
             /\ \A q \in Products :
                   (monitored_products'[q].exists /\ monitored_products'[q].is_active)
                   => (s \in ResolveSubscribers(q))']_vars

\* The steps of the admin commands that write a product without removing it.
AdminWriteStep ==
    \/ \E p \in Products, status \in StatusArgs : SetStatus(p, status)
    \/ \E answer \in Replies : ResetAllStatuses(answer)
    \/ CheckStep
    \/ \E p \in Products, enable \in BOOLEAN : ToggleMonitoring(p, enable)

\* C37: set_status, reset_all_statuses, check_product, check_all_products and
\* toggle_monitoring leave the counter and the last_restock_time of every
\* product as they are; the two fields of a product document change only in
\* the step that ends a turn of the product with a successful write.
AdminCommandsKeepCounterAndRestockTime ==
    [][/\ \/ \A p \in Products :
                /\ monitored_products'[p].consecutive_out_of_stock_checks
                       = monitored_products[p].consecutive_out_of_stock_checks
                /\ monitored_products'[p].last_restock_time
                       = monitored_products[p].last_restock_time
          \/ ~(CommandStep /\ AdminWriteStep)
       /\ \A p \in Products :
             (/\ monitored_products[p].exists
              /\ monitored_products'[p].exists
              /\ \/ monitored_products'[p].consecutive_out_of_stock_checks
                        # monitored_products[p].consecutive_out_of_stock_checks
                 \/ monitored_products'[p].last_restock_time
                        # monitored_products[p].last_restock_time)
             => /\ pc \in {"check", "send"}
                /\ turn'.id = p
                /\ turn'.written = "ok"]_vars

\* A command has stored out_of_stock for a product that had fired an event: the
\* counter is still the 0 of the in_stock turn and the event's time is kept.
StatusSetAfterEvent ==
    \E p \in Products :
        /\ monitored_products[p].exists
        /\ monitored_products[p].last_stock_status = "out_of_stock"
        /\ monitored_products[p].consecutive_out_of_stock_checks = 0
        /\ monitored_products[p].last_restock_time # NoTime

\* C38: the last status stored for a product is always one of in_stock,
\* out_of_stock, unknown; set_status with another value changes no product, and
\* neither does reset_all_statuses when the reply to its prompt is not 'yes'
\* (compared in lower case) or does not come.
StoredStatusIsValid ==
    /\ [](\A p \in Products : monitored_products[p].last_stock_status \in Statuses)
    /\ [][\/ monitored_products' = monitored_products
          \/ /\ ~(/\ CommandStep
                   /\ \E p \in Products, status \in StatusArgs \ Statuses :
                         SetStatus(p, status))
             /\ ~(/\ CommandStep
                   /\ \E answer \in Replies :
                         LowerReply(answer) # "yes" /\ ResetAllStatuses(answer))]_vars

\* A command has been handled and the product that was out of stock for two
\* cycles is as the cycles left it: no status command was accepted for it.
CommandLeftProductsUnchanged ==
    /\ commands > 0
    /\ turns = 0
    /\ fresh_turns["p1"] = 2
    /\ monitored_products["p1"].last_stock_status = "out_of_stock"
    /\ monitored_products["p1"].consecutive_out_of_stock_checks = 2

\* C39: the sends of a turn and their last-notified updates precede the product
\* write, so when a turn has persisted its event, the last-notified timestamp
\* the turn stored for a subscriber is older than the product's
\* last_restock_time.
NotifiedBeforeRestockTime ==
    (turn.fired /\ turn.written = "ok") =>
        \A s \in turn.timestamped :
            subscriptions[s].last_notified_timestamps[turn.id] # NoTime =>
                subscriptions[s].last_notified_timestamps[turn.id]
                    < monitored_products[turn.id].last_restock_time

\* A turn has notified a subscriber and then persisted its event.
NotifiedThenPersisted ==
    /\ turn.fired
    /\ turn.written = "ok"
    /\ \E s \in turn.timestamped :
          /\ s \in turn.delivered
          /\ subscriptions[s].last_notified_timestamps[turn.id] # NoTime
          /\ monitored_products[turn.id].last_restock_time # NoTime

\* C40, as stated: unsubscribe with no argument leaves the subscription with an
\* empty list and preference specific_products, and while the subscription is
\* in that state no notification is delivered to the subscriber.
UnsubscribedFromAllGetsNothing ==
    [][\A s \in Subscribers :
          /\ (Unsubscribe(s, NoArg) /\ subscriptions[s].exists) =>
                 /\ subscriptions'[s].subscribed_product_ids = {}
                 /\ subscriptions'[s].notification_preference = "specific_products"
          /\ (/\ subscriptions[s].exists
              /\ subscriptions[s].subscribed_product_ids = {}
              /\ subscriptions[s].notification_preference = "specific_products")
             => ~(pc = "send" /\ target = s /\ s \in turn'.delivered)]_vars

=============================================================================
